---- MODULE Spec2Model ----
(***************************************************************************)
(* A model of qtGradient (src/util/qtGradient.cpp): the implicitly shared  *)
(* gradient value, its stop map, its mutators and its queries at() and     *)
(* render().                                                               *)
(*                                                                         *)
(* A qreal is modelled as an exact fraction <<numerator, denominator>> in  *)
(* lowest terms with a positive denominator, extended with the IEEE 754    *)
(* values the code can produce by dividing by zero: <<1, 0>> and <<-1, 0>> *)
(* are the infinities and <<0, 0>> is NaN.  Rounding is not modelled.      *)
(*                                                                         *)
(* A QMap<qreal, Stop> is modelled as a set of entries [key, value] and an *)
(* iterator as an index into the ascending sequence of its keys, with      *)
(* index Len + 1 for end().  Reading through end(), or through the         *)
(* iterator before begin(), yields an indeterminate value.                 *)
(***************************************************************************)
EXTENDS Integers, Sequences, FiniteSets, TLC

VARIABLES d_ptr, heap, call, nops

vars == <<d_ptr, heap, call, nops>>

---------------------------------------------------------------------------
(* qreal *)

IntAbs(n) == IF n < 0 THEN -n ELSE n

RECURSIVE Gcd(_, _)
Gcd(a, b) == IF b = 0 THEN a ELSE Gcd(b, a % b)

Rat(n, d) ==
    LET g == Gcd(IntAbs(n), IntAbs(d))
        s == IF d < 0 THEN -1 ELSE 1
    IN  <<(s * n) \div g, (s * d) \div g>>

NaN == <<0, 0>>
PosInf == <<1, 0>>
Zero == <<0, 1>>
One == <<1, 1>>
Two == <<2, 1>>
Half == <<1, 2>>

IsNaN(x) == x = NaN
IsFinite(x) == x[2] > 0
IsInf(x) == x[2] = 0 /\ x[1] # 0
Sign(x) == IF x[1] > 0 THEN 1 ELSE IF x[1] < 0 THEN -1 ELSE 0

\* operator< on qreal: every comparison with NaN is false
Less(a, b) ==
    IF IsNaN(a) \/ IsNaN(b) THEN FALSE
    ELSE IF IsFinite(a) /\ IsFinite(b) THEN a[1] * b[2] < b[1] * a[2]
    ELSE IF IsInf(a) /\ IsInf(b) THEN a[1] < b[1]
    ELSE IF IsInf(a) THEN a[1] < 0
    ELSE b[1] > 0

Neg(a) == <<-a[1], a[2]>>

Add(a, b) ==
    IF IsNaN(a) \/ IsNaN(b) THEN NaN
    ELSE IF IsFinite(a) /\ IsFinite(b)
         THEN Rat(a[1] * b[2] + b[1] * a[2], a[2] * b[2])
    ELSE IF IsInf(a) /\ IsInf(b) THEN (IF a = b THEN a ELSE NaN)
    ELSE IF IsInf(a) THEN a
    ELSE b

Sub(a, b) == Add(a, Neg(b))

Mul(a, b) ==
    IF IsNaN(a) \/ IsNaN(b) THEN NaN
    ELSE IF IsFinite(a) /\ IsFinite(b) THEN Rat(a[1] * b[1], a[2] * b[2])
    ELSE <<Sign(a) * Sign(b), 0>>

\* IEEE division: x / 0 is an infinity for x # 0, and 0 / 0 is NaN
Div(a, b) ==
    IF IsNaN(a) \/ IsNaN(b) THEN NaN
    ELSE IF IsInf(a) /\ IsInf(b) THEN NaN
    ELSE IF IsInf(b) THEN Zero
    ELSE IF IsInf(a) THEN <<Sign(a) * (IF Sign(b) < 0 THEN -1 ELSE 1), 0>>
    ELSE IF b[1] = 0 THEN <<Sign(a), 0>>
    ELSE Rat(a[1] * b[2], a[2] * b[1])

Fabs(x) == <<IntAbs(x[1]), x[2]>>

\* fmod(x, m) for a finite m > 0: the remainder has the sign of x
Fmod(x, m) ==
    IF ~IsFinite(x) THEN NaN
    ELSE LET ax == Fabs(x)
             q  == (ax[1] * m[2]) \div (ax[2] * m[1])
             r  == Sub(ax, Mul(Rat(q, 1), m))
         IN  IF x[1] < 0 THEN Neg(r) ELSE r

qMin(a, b) == IF Less(a, b) THEN a ELSE b
qMax(a, b) == IF Less(a, b) THEN b ELSE a
qBound(min, val, max) == qMax(min, qMin(max, val))

\* qAbs(p1 - p2) * 1000000000000. <= qMin(qAbs(p1), qAbs(p2)), with the
\* factor 10^12 applied as two divisions by 10^6 to stay within machine
\* integers
qFuzzyCompare(p1, p2) ==
    IF ~IsFinite(p1) \/ ~IsFinite(p2) THEN FALSE
    ELSE LET diff == Fabs(Sub(p1, p2))
             m    == qMin(Fabs(p1), Fabs(p2))
         IN  IF diff[1] = 0 THEN TRUE
             ELSE (((m[1] * diff[2]) \div (diff[1] * m[2])) \div 1000000)
                      >= 1000000

---------------------------------------------------------------------------
(* QMap<qreal, qtGradient::Stop> *)

Entry(k, v) == [key |-> k, value |-> v]
Keys(m) == {e.key : e \in m}
Value(m, k) == (CHOOSE e \in m : e.key = k).value

\* the key of begin(): no key of the map is less than it
FirstKey(S) == CHOOSE k \in S : \A j \in S : ~Less(j, k)

RECURSIVE SortedKeys(_)
SortedKeys(S) ==
    IF S = {} THEN <<>>
    ELSE LET k == FirstKey(S) IN <<k>> \o SortedKeys(S \ {k})

LastKey(S) == LET s == SortedKeys(S) IN s[Len(s)]

\* QMap::insert walks down from the root, going left whenever the node's
\* key is not less than the new key, and overwrites the last such node when
\* the new key is not less than that node's key either.  With a NaN key no
\* comparison is true: a NaN node, which is only ever created in an empty
\* map, absorbs every later insert, and a NaN key put into a map of numbers
\* overwrites the first node.
QMapInsert(m, k, v) ==
    IF NaN \in Keys(m) THEN {e \in m : e.key # NaN} \cup {Entry(NaN, v)}
    ELSE IF IsNaN(k)
         THEN IF m = {} THEN {Entry(NaN, v)}
              ELSE LET f == FirstKey(Keys(m))
                   IN  {e \in m : e.key # f} \cup {Entry(f, v)}
    ELSE {e \in m : e.key # k} \cup {Entry(k, v)}

\* QMap::remove deletes nodes while findNode finds one: the first node whose
\* key is not less than the key sought, when the key sought is not less than
\* that node's key
QMapRemove(m, k) ==
    IF NaN \in Keys(m) THEN {e \in m : e.key # NaN}
    ELSE IF IsNaN(k) THEN {}
    ELSE {e \in m : e.key # k}

\* QMap::upperBound in the place of lowerBound: the first key greater than
\* pos
UpperBound(m, pos) ==
    LET s == SortedKeys(Keys(m))
        hits == {i \in 1..Len(s) : Less(pos, s[i])}
    IN  IF hits = {} THEN Len(s) + 1
        ELSE CHOOSE i \in hits : \A j \in hits : i <= j

\* QMap::lowerBound as an index into the sorted keys; Len + 1 is end()
LowerBound(m, pos) ==
    LET s == SortedKeys(Keys(m))
        hits == {i \in 1..Len(s) : ~Less(s[i], pos)}
    IN  IF hits = {} THEN Len(s) + 1
        ELSE CHOOSE i \in hits : \A j \in hits : i <= j

---------------------------------------------------------------------------
(* qtGradientData *)

Stop(p, c, w) == [Position |-> p, Color |-> c, Weight |-> w]

Functions == {"InterpolateDiscrete", "InterpolateLinear", "InterpolateCubic"}
ColorSpaces ==
    {"InterpolateRgb", "InterpolateCmyk", "InterpolateHsv", "InterpolateHsl"}
Spreads == {"PadSpread", "RepeatSpread", "ReflectSpread"}
NormalizeModes == {"NormalizeStops", "TruncateStops"}

\* an InterpolationMode is a function flag or-ed with a colorspace flag
Mode(f, c) == [function |-> f, colorspace |-> c]

Data(s, im, sp) == [stops |-> s, interpolateMode |-> im, spread |-> sp]

\* a color is a term: a named color, or an application of a blend of
\* qtColorUtil to its arguments
Solid(c) == <<"color", c>>

blendSpace(d) ==
    CASE d.interpolateMode.colorspace = "InterpolateCmyk" -> "Cmyk"
      [] d.interpolateMode.colorspace = "InterpolateHsv" -> "Hsv"
      [] d.interpolateMode.colorspace = "InterpolateHsl" -> "Hsl"
      [] OTHER -> "Rgb"

\* qtColorUtil::blend(QColor, QColor, qreal, QColor::Spec)
blend(d, a, b, t) == <<"blend", a, b, t, blendSpace(d)>>

\* qtColorUtil::blend(qreal, qreal, qreal): linear interpolation
ScalarBlend(a, b, t) == Add(a, Mul(Sub(b, a), t))

linearBlend(d, a, b, t, w) ==
    LET tw == IF Less(w, t)
              THEN ScalarBlend(Half, One, Div(Sub(t, w), Sub(One, w)))
              ELSE ScalarBlend(Zero, Half, Div(t, w))
    IN  blend(d, a, b, tw)

\* the four-point blends of qtColorUtil that cubicBlend ends in are kept as
\* an application to the stops and the relative position it is given
cubicBlend(d, a, b, c, e, t) == <<"cubicBlend", a, b, c, e, t, blendSpace(d)>>

---------------------------------------------------------------------------
(* bounds and inputs *)

MaxOps == 3
MaxLen == 2
MaxSize == 3

Handles == {"a", "b"}
Cells == {1, 2}

InPositions == {Rat(-1, 2), Zero, Half, One, Rat(3, 2)}
InColors == {"red"}
InWeights == {Half}
InStops == {Stop(p, c, w) : p \in InPositions, c \in InColors, w \in InWeights}
InLists == UNION {[1..k -> InStops] : k \in 0..MaxLen}
InModes == {Mode(f, c) : f \in Functions, c \in {"InterpolateRgb", "InterpolateHsv"}}
QueryPositions == {Rat(n, 4) : n \in -2..6}
Sizes == 0..MaxSize

\* what a read through end() or before begin() may yield
Colors == {"black", "white", "transparent"} \cup InColors
IndeterminateKeys == {Half, Two, NaN}
IndeterminateStops == {Stop(NaN, c, NaN) : c \in {"black", "transparent"}}

---------------------------------------------------------------------------
(* qtGradient: construction and shared data *)

DefaultData ==
    Data({Entry(Zero, Stop(Zero, "black", Half)),
          Entry(One, Stop(One, "white", Half))},
         Mode("InterpolateLinear", "InterpolateRgb"), "PadSpread")

\* a cell no gradient refers to
NoData == Data({}, Mode("InterpolateLinear", "InterpolateRgb"), "PadSpread")

\* the last call: op on gradient self with its arguments (pos: a position,
\* or the step k of render; list: the stops given), whether it made a copy
\* of shared data (detached), and what it yielded: ok is the bool returned
\* (TRUE for a call that returns no bool and reports no error), colors the
\* color or colors returned, fault whether it read through an iterator that
\* is end() or before begin(), or never returned ("hang")
NoCall ==
    [op |-> "qtGradient", self |-> "a", pos |-> Zero, list |-> <<>>,
     nm |-> "NormalizeStops", size |-> 0, ok |-> TRUE, colors |-> <<>>,
     fault |-> "none", detached |-> FALSE]

Init ==
    /\ d_ptr = [h \in Handles |-> IF h = "a" THEN 1 ELSE 2]
    /\ heap = [c \in Cells |-> DefaultData]
    /\ call = NoCall
    /\ nops = 0

\* QTE_D_SHARED: the data as it is
d_func(h) == heap[d_ptr[h]]

IsShared(h) == \E g \in Handles \ {h} : d_ptr[g] = d_ptr[h]
FreeCell == CHOOSE c \in Cells : \A g \in Handles : d_ptr[g] # c

\* QTE_D_MUTABLE: the cell to write, a fresh copy when the data is shared
Detached(h) == IF IsShared(h) THEN FreeCell ELSE d_ptr[h]

Store(h, data) ==
    /\ d_ptr' = [d_ptr EXCEPT ![h] = Detached(h)]
    /\ heap' = [heap EXCEPT ![Detached(h)] = data]

Called(op, h) ==
    [NoCall EXCEPT !.op = op, !.self = h, !.detached = IsShared(h)]

Running == call.fault # "hang"

\* qtGradient(qtGradient const&) and operator=: share the other's data; data
\* no gradient refers to any more is deleted
Share(h, other) ==
    /\ d_ptr' = [d_ptr EXCEPT ![h] = d_ptr[other]]
    /\ heap' = [c \in Cells |->
                   IF \E g \in Handles \ {h} : d_ptr[g] = c
                        \/ c = d_ptr[other]
                   THEN heap[c] ELSE NoData]

copyConstruct(h, other) ==
    /\ Share(h, other)
    /\ call' = [Called("copy", h) EXCEPT !.detached = FALSE]

assign(h, other) ==
    /\ Share(h, other)
    /\ call' = [Called("operator=", h) EXCEPT !.detached = FALSE]

setInterpolationMode(h, im) ==
    /\ Store(h, [d_func(h) EXCEPT !.interpolateMode = im])
    /\ call' = Called("setInterpolationMode", h)

\* setSpread writing through the shared pointer, without QTE_D_MUTABLE
setSpreadShared(h, spread) ==
    /\ d_ptr' = d_ptr
    /\ heap' = [heap EXCEPT ![d_ptr[h]] = [d_func(h) EXCEPT !.spread = spread]]
    /\ call' = Called("setSpread", h)

setSpread(h, spread) ==
    /\ Store(h, [d_func(h) EXCEPT !.spread = spread])
    /\ call' = Called("setSpread", h)

insertStop(h, stop) ==
    IF ~(Less(Zero, stop.Position) \/ Less(stop.Position, One))
       THEN /\ UNCHANGED <<d_ptr, heap>>
            /\ call' = [Called("insertStop", h) EXCEPT
                           !.pos = stop.Position, !.list = <<stop>>,
                           !.ok = FALSE, !.detached = FALSE]
       ELSE /\ Store(h, [d_func(h) EXCEPT
                            !.stops = QMapInsert(@, stop.Position, stop)])
            /\ call' = [Called("insertStop", h) EXCEPT
                           !.pos = stop.Position, !.list = <<stop>>]

removeStop(h, position) ==
    /\ Store(h, [d_func(h) EXCEPT !.stops = QMapRemove(@, position)])
    /\ call' = [Called("removeStop", h) EXCEPT
                   !.pos = position,
                   !.ok = (QMapRemove(d_func(h).stops, position)
                               # d_func(h).stops)]

---------------------------------------------------------------------------
(* setStops *)

RECURSIVE InsertEach(_, _)
InsertEach(m, list) ==
    IF list = <<>> THEN m
    ELSE InsertEach(QMapInsert(m, Head(list).Position, Head(list)), Tail(list))

\* nm == NormalizeStops
NormalizeStops(list) ==
    LET stopsMap == InsertEach({}, list)
        offset   == FirstKey(Keys(stopsMap))
        scale    == Div(One, Sub(LastKey(Keys(stopsMap)), offset))
    IN  InsertEach({}, [i \in 1..Len(list) |->
                           [list[i] EXCEPT
                               !.Position = Mul(Sub(@, offset), scale)]])

\* the first loop of the other branch: erase begin() while its key < 0.0
DropBelowZero(stopsMap) == {e \in stopsMap : ~Less(e.key, Zero)}

\* The other branch.  Both the second loop and the test for an end stop read
\* stopsMap.end().key(), which is no key of the map: endKey1 and endKey2 are
\* what the two reads yield and endValue what end().value() yields.  A first
\* read above 1.0 erases end(), which QMap::erase leaves alone, and tests
\* again: the loop does not end and d->stops keeps the old stops.
TruncateStops(old, list, endKey1, endKey2, endValue) ==
    LET m1 == DropBelowZero(InsertEach({}, list))
    IN  IF m1 = {} THEN [stops |-> {}, fault |-> "none"]
        ELSE IF Less(One, endKey1) THEN [stops |-> old, fault |-> "hang"]
        ELSE LET first == FirstKey(Keys(m1))
                 m2 == IF Less(Zero, first)
                       THEN QMapInsert(m1, Zero, Value(m1, first))
                       ELSE m1
                 m3 == IF Less(endKey2, One)
                       THEN QMapInsert(m2, One, endValue)
                       ELSE m2
             IN  [stops |-> m3, fault |-> "end"]

setStopsOutcomes(old, list, nm) ==
    IF list = <<>> THEN {[stops |-> {}, fault |-> "none"]}
    ELSE IF Len(list) = 1
         THEN {[stops |-> QMapInsert({}, Zero, list[1]), fault |-> "none"]}
    ELSE IF nm = "NormalizeStops"
         THEN {[stops |-> NormalizeStops(list), fault |-> "none"]}
    ELSE {TruncateStops(old, list, k1, k2, v) :
              k1 \in IndeterminateKeys, k2 \in IndeterminateKeys,
              v \in IndeterminateStops}

setStops(h, list, nm) ==
    \E out \in setStopsOutcomes(d_func(h).stops, list, nm) :
        /\ Store(h, [d_func(h) EXCEPT !.stops = out.stops])
        /\ call' = [Called("setStops", h) EXCEPT
                       !.list = list, !.nm = nm, !.fault = out.fault]

---------------------------------------------------------------------------
(* at and render *)

\* the switch on d->spread
SpreadPos(spread, pos) ==
    CASE spread = "RepeatSpread" ->
             LET p == Fmod(pos, One)
             IN  IF Less(p, Zero) THEN Add(One, p) ELSE p
      [] spread = "ReflectSpread" ->
             LET p == Fabs(Fmod(pos, Two))
             IN  IF Less(One, p) THEN Sub(Two, p) ELSE p
      [] OTHER -> qBound(Zero, pos, One)

Returns(c) == {[color |-> c, fault |-> "none"]}
Indeterminate(f) == {[color |-> Solid(c), fault |-> f] : c \in Colors}

\* every result at(pos0) may return on data d
atOutcomes(d, pos0) ==
    LET m == d.stops
        s == SortedKeys(Keys(m))
    IN  IF m = {} THEN Returns(Solid("transparent"))
        ELSE IF Cardinality(m) < 2 THEN Returns(Solid(Value(m, s[1]).Color))
        ELSE
          LET pos == SpreadPos(d.spread, pos0)
              su  == LowerBound(m, pos)
          IN  IF su > Len(s) THEN Indeterminate("pastEnd")
              ELSE IF qFuzzyCompare(pos, s[su])
                   THEN Returns(Solid(Value(m, s[su]).Color))
              ELSE IF su = 1 THEN Indeterminate("beforeBegin")
              ELSE
                LET sl   == su - 1
                    vl   == Value(m, s[sl])
                    vu   == Value(m, s[su])
                    rpos == Div(Sub(pos, s[sl]), Sub(s[su], s[sl]))
                    sll  == IF sl = 1 THEN sl ELSE sl - 1
                    suu  == IF su + 1 = Len(s) + 1 THEN su ELSE su + 1
                IN  IF qFuzzyCompare(pos, s[sl]) THEN Returns(Solid(vl.Color))
                    ELSE CASE d.interpolateMode.function = "InterpolateDiscrete" ->
                                  Returns(Solid(IF Less(rpos, vl.Weight)
                                                THEN vl.Color ELSE vu.Color))
                           [] d.interpolateMode.function = "InterpolateCubic" ->
                                  Returns(cubicBlend(d, Value(m, s[sll]), vl, vu,
                                                     Value(m, s[suu]), rpos))
                           [] OTHER ->
                                  Returns(linearBlend(d, Solid(vl.Color),
                                                      Solid(vu.Color), rpos,
                                                      vl.Weight))

at(h, pos) ==
    \E out \in atOutcomes(d_func(h), pos) :
        /\ UNCHANGED <<d_ptr, heap>>
        /\ call' = [NoCall EXCEPT !.op = "at", !.self = h, !.pos = pos,
                        !.colors = <<out.color>>, !.fault = out.fault]

\* qtIndexRange(size): 0, 1, ..., size - 1
IndexRange(size) == 0..(size - 1)

\* the results of at(i * k) for i, i + 1, ..., size - 1
RECURSIVE Samples(_, _, _, _)
Samples(d, k, i, size) ==
    IF i \notin IndexRange(size) THEN {<<>>}
    ELSE {<<o>> \o rest : o \in atOutcomes(d, Mul(Rat(i, 1), k)),
                          rest \in Samples(d, k, i + 1, size)}

render(h, size) ==
    LET k == Div(One, Rat(size - 1, 1))
    IN  \E out \in Samples(d_func(h), k, 0, size) :
            /\ UNCHANGED <<d_ptr, heap>>
            /\ call' = [NoCall EXCEPT
                            !.op = "render", !.self = h, !.size = size,
                            !.pos = k, !.ok = TRUE,
                            !.colors = [i \in 1..Len(out) |-> out[i].color],
                            !.fault =
                                IF \A i \in 1..Len(out) : out[i].fault = "none"
                                THEN "none" ELSE "lookup"]

---------------------------------------------------------------------------
(* Spec: one gradient under every operation, MaxOps calls *)

Ready == Running /\ nops < MaxOps
Count == nops' = nops + 1

SetStops ==
    /\ Ready /\ Count
    /\ \E list \in InLists, nm \in NormalizeModes : setStops("a", list, nm)

InsertStop ==
    /\ Ready /\ Count
    /\ \E stop \in InStops : insertStop("a", stop)

RemoveStop ==
    /\ Ready /\ Count
    /\ \E p \in InPositions : removeStop("a", p)

SetInterpolationMode ==
    /\ Ready /\ Count
    /\ \E im \in InModes : setInterpolationMode("a", im)

SetSpread ==
    /\ Ready /\ Count
    /\ \E sp \in Spreads : setSpread("a", sp)

At ==
    /\ Ready /\ Count
    /\ \E p \in QueryPositions : at("a", p)

Render ==
    /\ Ready /\ Count
    /\ \E n \in Sizes : render("a", n)

Next ==
    \/ SetStops
    \/ InsertStop
    \/ RemoveStop
    \/ SetInterpolationMode
    \/ SetSpread
    \/ At
    \/ Render

Spec == Init /\ [][Next]_vars

---------------------------------------------------------------------------
(* SpecAt: one gradient of at most MaxStops stops under insertStop,        *)
(* removeStop, the two setters and at                                      *)

MaxStops == 4

AtInsertStop ==
    /\ UNCHANGED nops
    /\ \E stop \in InStops :
           /\ Cardinality(Keys(d_func("a").stops) \cup {stop.Position})
                  <= MaxStops
           /\ insertStop("a", stop)

AtRemoveStop ==
    /\ UNCHANGED nops
    /\ \E p \in InPositions : removeStop("a", p)

AtSetInterpolationMode ==
    /\ UNCHANGED nops
    /\ \E im \in InModes : setInterpolationMode("a", im)

AtSetSpread ==
    /\ UNCHANGED nops
    /\ \E sp \in Spreads : setSpread("a", sp)

AtQuery ==
    /\ UNCHANGED nops
    /\ \E p \in QueryPositions : at("a", p)

NextAt ==
    \/ AtInsertStop
    \/ AtRemoveStop
    \/ AtSetInterpolationMode
    \/ AtSetSpread
    \/ AtQuery

SpecAt == Init /\ [][NextAt]_vars

---------------------------------------------------------------------------
(* SpecShared: two gradients that may share their data, MaxSharedOps calls *)

MaxSharedOps == 3

SharedStops == {Stop(Half, "red", Half), Stop(Rat(3, 2), "red", Half)}
SharedLists ==
    {<<>>, <<Stop(Half, "red", Half)>>,
     <<Stop(Zero, "red", Half), Stop(Rat(3, 2), "red", Half)>>}
SharedModes ==
    {Mode("InterpolateCubic", "InterpolateHsv"),
     Mode("InterpolateDiscrete", "InterpolateRgb")}

SharedReady == Running /\ nops < MaxSharedOps

SharedCopyConstruct ==
    /\ SharedReady /\ Count
    /\ \E h \in Handles : \E other \in Handles \ {h} : copyConstruct(h, other)

SharedAssign ==
    /\ SharedReady /\ Count
    /\ \E h \in Handles : \E other \in Handles \ {h} : assign(h, other)

SharedSetStops ==
    /\ SharedReady /\ Count
    /\ \E h \in Handles, list \in SharedLists, nm \in NormalizeModes :
           setStops(h, list, nm)

SharedInsertStop ==
    /\ SharedReady /\ Count
    /\ \E h \in Handles, stop \in SharedStops : insertStop(h, stop)

SharedRemoveStop ==
    /\ SharedReady /\ Count
    /\ \E h \in Handles, p \in {Zero, Half} : removeStop(h, p)

SharedSetInterpolationMode ==
    /\ SharedReady /\ Count
    /\ \E h \in Handles, im \in SharedModes : setInterpolationMode(h, im)

SharedSetSpread ==
    /\ SharedReady /\ Count
    /\ \E h \in Handles, sp \in Spreads : setSpread(h, sp)

NextShared ==
    \/ SharedCopyConstruct
    \/ SharedAssign
    \/ SharedSetStops
    \/ SharedInsertStop
    \/ SharedRemoveStop
    \/ SharedSetInterpolationMode
    \/ SharedSetSpread

SpecShared == Init /\ [][NextShared]_vars

---------------------------------------------------------------------------
(* properties *)

stops(h) == d_func(h).stops
Count2(h) == Cardinality(stops(h)) >= 2
IsCall(op) == call.op = op
WasCalled(op) == nops' # nops /\ call'.op = op
LessEq(a, b) == Less(a, b) \/ (a = b /\ ~IsNaN(a))
InUnit(p) == LessEq(Zero, p) /\ LessEq(p, One)

\* a position the spread policy maps to itself
WithinSpread(spread, p) ==
    IF spread = "RepeatSpread" THEN LessEq(Zero, p) /\ Less(p, One)
    ELSE InUnit(p)

\* at returned the color of the stop stored at the position asked for
ReturnedStopAt(h) ==
    /\ call.fault = "none"
    /\ call.colors = <<Solid(Value(stops(h), call.pos).Color)>>

\* C1, as amended: on a gradient of at least two stops, for every spread
\* policy and interpolation function, at(p) for a position p that is the key
\* of a stop and that the spread policy maps to itself (0 <= p <= 1 under
\* Pad and Reflect, 0 <= p < 1 under Repeat) returns the color of the stop
\* stored at p.
C1_ExactStopMatchWithinSpread ==
    (/\ IsCall("at")
     /\ Count2(call.self)
     /\ call.pos \in Keys(stops(call.self))
     /\ WithinSpread(d_func(call.self).spread, call.pos))
        => ReturnedStopAt(call.self)

\* C1 as stated: at(p) returns the color of the stop stored at p for every
\* position p that is the key of a stop, whatever the spread policy.
C1_ExactStopMatch ==
    (/\ IsCall("at")
     /\ Count2(call.self)
     /\ call.pos \in Keys(stops(call.self)))
        => ReturnedStopAt(call.self)

\* at(0.5) has returned the color of the stop at 0.5 of a cubic, repeating
\* gradient that also holds a stop beyond 1.0
C1_Witness ==
    /\ IsCall("at")
    /\ call.pos = Half
    /\ Keys(stops("a")) = {Zero, Half, Rat(3, 2)}
    /\ d_func("a").spread = "RepeatSpread"
    /\ d_func("a").interpolateMode.function = "InterpolateCubic"
    /\ call.colors = <<Solid("red")>>

\* C2: after setStops(list, Normalize) with a list of at least two stops the
\* smallest key of the stop set is 0.0 and the largest is 1.0.
C2_NormalizedEndpoints ==
    (/\ IsCall("setStops")
     /\ call.nm = "NormalizeStops"
     /\ Len(call.list) >= 2)
        => /\ stops(call.self) # {}
           /\ FirstKey(Keys(stops(call.self))) = Zero
           /\ LastKey(Keys(stops(call.self))) = One

\* what C3 says setStops(list, Truncate) leaves: the stops of the list within
\* [0, 1], and copies of the least and the greatest of them at 0.0 and 1.0
\* where those keys are missing
TruncateClaimed(list) ==
    LET kept == {e \in InsertEach({}, list) : InUnit(e.key)}
        lo   == FirstKey(Keys(kept))
        hi   == LastKey(Keys(kept))
    IN  IF kept = {} THEN {}
        ELSE kept
             \cup (IF Less(Zero, lo) THEN {Entry(Zero, Value(kept, lo))} ELSE {})
             \cup (IF Less(hi, One) THEN {Entry(One, Value(kept, hi))} ELSE {})

\* C3: after setStops(list, Truncate) with at least two stops the set holds
\* no key below 0.0 or above 1.0: the stops outside [0, 1] are dropped, those
\* within are kept, and when any is kept the keys 0.0 and 1.0 are present,
\* as copies of the least and the greatest kept stop where they were missing.
C3_TruncateResult ==
    (/\ IsCall("setStops")
     /\ call.nm = "TruncateStops"
     /\ Len(call.list) >= 2
     /\ call.fault # "hang")
        => stops(call.self) = TruncateClaimed(call.list)

Mutators ==
    {"setStops", "insertStop", "removeStop", "setInterpolationMode",
     "setSpread"}

\* C4: a mutator called on one gradient leaves the stops, the interpolation
\* mode and the spread of every other gradient as they were, also when the
\* two were made from one another by copy construction or assignment.
C4_CopiesIndependent ==
    [][\A h \in Handles :
          (nops' # nops /\ call'.op \in Mutators /\ call'.self = h)
              => \A g \in Handles \ {h} : d_func(g)' = d_func(g)]_vars

\* a mutator has been called on a gradient that shared its data with the
\* other one, and the two now differ
C4_Witness ==
    /\ call.op \in Mutators
    /\ call.detached
    /\ d_ptr["a"] # d_ptr["b"]
    /\ d_func("a") # d_func("b")

\* C5: insertStop returns true for every position, and afterwards the set
\* maps that position to the stop given, every other entry unchanged.
C5_InsertStopAccepts ==
    [][\A h \in Handles :
          (WasCalled("insertStop") /\ call'.self = h)
              => /\ call'.ok
                 /\ stops(h)' = {e \in stops(h) : e.key # call'.pos}
                                    \cup {Entry(call'.pos, call'.list[1])}]_vars

\* the spread mappings as C6 states them
Floor(x) == x[1] \div x[2]
SpreadClaimed(spread, p) ==
    CASE spread = "RepeatSpread" -> Sub(p, Rat(Floor(p), 1))
      [] spread = "ReflectSpread" ->
             LET q == Sub(p, Rat(2 * Floor(Div(p, Two)), 1))
             IN  IF LessEq(q, One) THEN q ELSE Sub(Two, q)
      [] OTHER -> IF Less(p, Zero) THEN Zero ELSE IF Less(One, p) THEN One ELSE p

\* C6: on a gradient of at least two stops at(p) equals at(S(p)), where S(p)
\* lies in [0, 1] and is clamp(p, 0, 1) under Pad, p mod 1 in [0, 1) under
\* Repeat and the triangle wave of period 2 under Reflect.
C6_SpreadCorrect ==
    (IsCall("at") /\ Count2(call.self))
        => LET d == d_func(call.self)
               sp == SpreadClaimed(d.spread, call.pos)
           IN  /\ InUnit(sp)
               /\ \A o \in atOutcomes(d, sp) : call.colors = <<o.color>>

\* C7: for size >= 2 render(size) returns size colors, the i-th being
\* at(i / (size - 1)), and does not change the gradient.
C7_RenderSamples ==
    [][\A h \in Handles :
          (WasCalled("render") /\ call'.self = h /\ call'.size >= 2)
              => /\ d_func(h)' = d_func(h)
                 /\ Len(call'.colors) = call'.size
                 /\ \A i \in 0..(call'.size - 1) :
                        \A o \in atOutcomes(d_func(h), Rat(i, call'.size - 1)) :
                            call'.colors[i + 1] = o.color]_vars

\* C8: render(size) with size < 2 fails with a precondition error: it does
\* not compute the step 1 / (size - 1) with a zero divisor and returns no
\* colors.
C8_RenderRejectsSmallSize ==
    (IsCall("render") /\ call.size < 2)
        => /\ ~call.ok
           /\ call.pos # PosInf
           /\ call.colors = <<>>

\* C9: on a gradient of at least two stops the lookup of at finds a stop
\* with a key >= the normalized position and, without an exact match, a
\* stop before it: it never runs past the last stop or before the first.
C9_LookupInRange ==
    (IsCall("at") /\ Count2(call.self)) => call.fault = "none"

\* C10: every stop is stored under a key equal to its own position.
C10_KeyIsPosition ==
    \A h \in Handles : \A e \in stops(h) : e.key = e.value.Position

====
